---- MODULE Spec2Model ----
(***************************************************************************)
(* A model of code_monkey: the Position Resolver, the Entity Tree's span   *)
(* properties, the Change Generator, Change and the Change Set.            *)
(*                                                                         *)
(* A text is a sequence of one-character strings.  The only line           *)
(* terminator of the modelled texts is "\n".  Offsets, lines and columns   *)
(* are 0-based as in the Python source; TLA+ sequences are 1-based, so the *)
(* character at offset o of t is t[o + 1].                                 *)
(***************************************************************************)
EXTENDS Integers, Sequences, FiniteSets, TLC

VARIABLES
    disk,      \* file path -> text: the content of every file on disk
    disk0,     \* disk as it was at construction (history, never written)
    changes,   \* ChangeSet.changes: the Changes added so far, in order
    prog,      \* the parse of the module under edit: its top-level blocks
    out        \* what the last operation returned or raised

vars == <<disk, disk0, changes, prog, out>>

NL == "\n"

Min(a, b) == IF a < b THEN a ELSE b
Max(a, b) == IF a > b THEN a ELSE b

\* ------------------------------------------------------------------------
\* Python string primitives, for indexes >= 0
\* ------------------------------------------------------------------------

\* s[:n]
SliceTo(s, n) == SubSeq(s, 1, Min(n, Len(s)))

\* s[n:]
SliceFrom(s, n) == SubSeq(s, Min(n, Len(s)) + 1, Len(s))

\* s[a:b]
Slice(s, a, b) == SubSeq(s, Min(a, Len(s)) + 1, Min(b, Len(s)))

\* the 1-based place of the first NL of s at or after place i; Len(s) + 1 if none
RECURSIVE FirstNL(_, _)
FirstNL(s, i) ==
    IF i > Len(s) THEN Len(s) + 1
    ELSE IF s[i] = NL THEN i
    ELSE FirstNL(s, i + 1)

\* s.splitlines(True): the lines of s, each with its terminator kept
RECURSIVE splitlines(_)
splitlines(s) ==
    IF s = <<>> THEN <<>>
    ELSE LET k == Min(FirstNL(s, 1), Len(s))
         IN  <<SubSeq(s, 1, k)>> \o splitlines(SubSeq(s, k + 1, Len(s)))

\* ''.join(lines)
RECURSIVE Join(_)
Join(lines) ==
    IF lines = <<>> THEN <<>> ELSE Head(lines) \o Join(Tail(lines))

\* sum(len(l) for l in lines[:n])
RECURSIVE LenOfFirst(_, _)
LenOfFirst(lines, n) ==
    IF n = 0 \/ lines = <<>> THEN 0
    ELSE Len(Head(lines)) + LenOfFirst(Tail(lines), n - 1)

\* ------------------------------------------------------------------------
\* Results of operations that may raise
\* ------------------------------------------------------------------------

Raise(e) == [st |-> e, v |-> 0]
Ok(v) == [st |-> "ok", v |-> v]
\* a function that returns without a return statement gives None
None == [st |-> "None", v |-> 0]

\* ------------------------------------------------------------------------
\* Position Resolver (code_monkey.utils)
\* ------------------------------------------------------------------------

\* The mutant of line_column_to_absolute_index that counts the lines without
\* their terminators.
line_column_to_absolute_index_stripped(text, line, column) ==
    LET lines == splitlines(text)
    IN  IF line > Len(lines) THEN Raise("OutOfRange")
        ELSE Ok(LenOfFirst(lines, line) - line + column)

\* line_col_to_offset(text, line, col): the absolute index of (line, col);
\* OutOfRange when line exceeds the number of lines of text.
line_column_to_absolute_index(text, line, column) ==
    LET lines == splitlines(text)
    IN  IF line > Len(lines) THEN Raise("OutOfRange")
        ELSE Ok(LenOfFirst(lines, line) + column)

\* the (line, col) of index, scanning the lines from line number n on, count
\* characters into the text
RECURSIVE ScanLines(_, _, _, _)
ScanLines(lines, n, count, index) ==
    IF lines = <<>> THEN <<n, 0>>
    ELSE LET l == Head(lines)
         IN  IF index < count + Len(l) THEN <<n, index - count>>
             ELSE IF Tail(lines) = <<>> /\ l[Len(l)] # NL
                  THEN <<n, index - count>>
             ELSE ScanLines(Tail(lines), n + 1, count + Len(l), index)

\* offset_to_line_col(text, offset): the inverse mapping; OutOfRange when
\* offset exceeds len(text).
absolute_index_to_line_column(text, index) ==
    IF index > Len(text) THEN Raise("OutOfRange")
    ELSE Ok(ScanLines(splitlines(text), 0, 0, index))

\* ------------------------------------------------------------------------
\* Change
\* ------------------------------------------------------------------------

Change(path, start, end, new_text) ==
    [path |-> path, start |-> start, end |-> end, new_text |-> new_text]

\* The mutant of NewSource that keeps the character at offset end.
NewSourceEndExclusive(source, c) ==
    SliceTo(source, c.start) \o c.new_text \o SliceFrom(source, c.end)

\* The mutant of NewSource that keeps the character at offset start.
NewSourceStartInclusive(source, c) ==
    SliceTo(source, c.start + 1) \o c.new_text \o SliceFrom(source, c.end + 1)

\* new_source of Change.__unicode__: the content after applying c alone
NewSource(source, c) ==
    SliceTo(source, c.start) \o c.new_text \o SliceFrom(source, c.end + 1)

\* the length of the longest common prefix of the line lists a and b
RECURSIVE CommonPrefix(_, _)
CommonPrefix(a, b) ==
    IF a = <<>> \/ b = <<>> THEN 0
    ELSE IF Head(a) # Head(b) THEN 0
    ELSE 1 + CommonPrefix(Tail(a), Tail(b))

Reverse(s) == [i \in 1..Len(s) |-> s[Len(s) + 1 - i]]

\* n of difflib.unified_diff: the lines of context around a change
ContextLines == 3

\* difflib.unified_diff(a, b) for two line lists that differ in one region:
\* the lines it marks '-' and '+', and the four numbers of its hunk header
\* @@ -a_start,a_count +b_start,b_count @@.  Equal lists give no output.
unified_diff(a, b) ==
    LET p == CommonPrefix(a, b)
        s == CommonPrefix(Reverse(SubSeq(a, p + 1, Len(a))),
                          Reverse(SubSeq(b, p + 1, Len(b))))
        before == Min(p, ContextLines)
        after == Min(s, ContextLines)
        removed == SubSeq(a, p + 1, Len(a) - s)
        added == SubSeq(b, p + 1, Len(b) - s)
    IN  IF a = b
        THEN [empty |-> TRUE, removed |-> <<>>, added |-> <<>>, hunk |-> <<0, 0, 0, 0>>]
        ELSE [empty |-> FALSE, removed |-> removed, added |-> added,
              hunk |-> <<p - before + 1, before + Len(removed) + after,
                         p - before + 1, before + Len(added) + after>>]

\* Change.__unicode__: reads the file, builds new_source, diffs the lines
ChangeUnicode(c) ==
    LET source == disk[c.path]
        new_source == NewSource(source, c)
    IN  [source |-> source, new_source |-> new_source,
         diff |-> unified_diff(splitlines(source), splitlines(new_source))]

\* ------------------------------------------------------------------------
\* Change Set
\* ------------------------------------------------------------------------

\* the files of the project and the directories that hold them
SettingsPath == "settings.py"
EmployeePath == "lib/employee.py"
ProjectPath == "."
PackagePath == "lib"
Paths == {SettingsPath, EmployeePath}
Directories == {ProjectPath, PackagePath}

\* test_project/settings.py, as tests/test_change.py and tests/test_node.py
\* quote it
SettingsLines == <<
    <<"O", "N", "E", "_", "L", "I", "N", "E", "R", " ", "=", " ", "'", "f", "o", "o", "b", "a", "r", "'", NL>>,
    <<NL>>,
    <<"M", "U", "L", "T", "I", "L", "I", "N", "E", "_", "S", "E", "T", "T", "I", "N", "G", " ", "=", " ", "{", NL>>,
    <<" ", " ", " ", " ", "'", "s", "o", "m", "e", "_", "k", "e", "y", "'", ":", " ", "4", "2", ",", NL>>,
    <<" ", " ", " ", " ", "'", "o", "t", "h", "e", "r", "_", "k", "e", "y", "'", ":", " ", "{", NL>>,
    <<NL>>,
    <<NL>>,
    <<" ", " ", " ", " ", " ", " ", " ", " ", "'", "b", "a", "z", "'", ":", " ", "'", "q", "u", "u", "x", "'", NL>>,
    <<" ", " ", " ", " ", "}", " ", " ", "#", "s", "o", "m", "e", " ", "c", "o", "m", "m", "e", "n", "t", NL>>,
    <<NL>>,
    <<NL>>,
    <<"}", NL>> >>

SettingsText == Join(SettingsLines)

\* the new_text of test_str
Foobar == <<"f", "o", "o", "b", "a", "r", NL>>

\* bounds of the Change Set model
MaxOffset == 2
MaxChanges == 2

\* short contents for the second file: empty, one bare line, terminated
\* lines, a blank line
SampleTexts == {
    <<>>,
    <<"a">>,
    <<"a", NL>>,
    <<"a", NL, "b">>,
    <<NL, "a", NL>>,
    <<"a", "b", NL, "c", NL>> }

NewTexts == {Foobar, <<"z">>}

\* the Changes the model constructs: a range names at least one offset
ChangeUniverse ==
    {Change(x[1], x[2], x[3], x[4]) :
        x \in {y \in Paths \X (0..MaxOffset) \X (0..MaxOffset) \X NewTexts :
                  y[2] <= y[3]}}

\* the Changes of the set that name file p, in the order they were added
ChangesOf(cs, p) == SelectSeq(cs, LAMBDA c : c.path = p)

\* The mutant of Overlap that lets two ranges share their end offset.
OverlapStrict(a, b) == a.start < b.end /\ b.start < a.end

\* two inclusive ranges [start, end] overlap
Overlap(a, b) == a.start <= b.end /\ b.start <= a.end

\* ChangeSet.validate(): ConflictingChanges if two Changes of one file overlap
validate(cs) ==
    IF \E p \in Paths :
          LET f == ChangesOf(cs, p)
          IN  \E i, j \in 1..Len(f) : i < j /\ Overlap(f[i], f[j])
    THEN Raise("ConflictingChanges")
    ELSE Ok(0)

\* c put into the list sorted, which is in descending start order, after
\* every Change whose start is not smaller (a stable sort)
RECURSIVE InsertDescending(_, _)
InsertDescending(sorted, c) ==
    IF sorted = <<>> THEN <<c>>
    ELSE IF Head(sorted).start >= c.start
         THEN <<Head(sorted)>> \o InsertDescending(Tail(sorted), c)
         ELSE <<c>> \o sorted

\* sorted(f, key=start, reverse=True)
RECURSIVE SortDescending(_)
SortDescending(f) ==
    IF f = <<>> THEN <<>>
    ELSE InsertDescending(SortDescending(SubSeq(f, 1, Len(f) - 1)), f[Len(f)])

\* the Changes of f folded into one in-memory copy of text, first to last
RECURSIVE ApplyInOrder(_, _)
ApplyInOrder(text, f) ==
    IF f = <<>> THEN text
    ELSE ApplyInOrder(NewSource(text, Head(f)), Tail(f))

\* the content of file p after all of its Changes: applied in descending
\* start order
NewContent(cs, p) == ApplyInOrder(disk[p], SortDescending(ChangesOf(cs, p)))

\* ------------------------------------------------------------------------
\* The Change Set's life: add, preview, validate, commit
\* ------------------------------------------------------------------------

NoOp == [op |-> "none"]

\* a committed Change Set is spent
Spent == out.op = "commit" /\ out.st = "ok"

Init ==
    /\ disk \in {[p \in Paths |-> IF p = SettingsPath THEN SettingsText ELSE t] :
                    t \in SampleTexts}
    /\ disk0 = disk
    /\ changes = <<>>
    /\ prog = <<>>
    /\ out = NoOp

\* ChangeSet.add(change)
Add(c) ==
    /\ out = NoOp
    /\ Len(changes) < MaxChanges
    /\ changes' = Append(changes, c)
    /\ out' = [op |-> "add"]
    /\ UNCHANGED <<disk, disk0, prog>>

\* str(change), for a Change of the set
Str(i) ==
    /\ out = NoOp
    /\ out' = [op |-> "str", change |-> changes[i], r |-> ChangeUnicode(changes[i])]
    /\ UNCHANGED <<disk, disk0, changes, prog>>

\* ChangeSet.validate()
Validate ==
    /\ out = NoOp
    /\ out' = [op |-> "validate", st |-> validate(changes).st]
    /\ UNCHANGED <<disk, disk0, changes, prog>>

\* ChangeSet.preview(): each file's new content diffed against the disk
Preview ==
    /\ out = NoOp
    /\ out' = [op |-> "preview",
               files |-> [p \in Paths |->
                   [new_source |-> NewContent(changes, p),
                    diff |-> unified_diff(splitlines(disk[p]),
                                          splitlines(NewContent(changes, p)))]]]
    /\ UNCHANGED <<disk, disk0, changes, prog>>

\* ChangeSet.commit(): validate, then write every file's new content
Commit ==
    /\ out = NoOp
    /\ LET v == validate(changes)
       IN  /\ out' = [op |-> "commit", st |-> v.st]
           /\ disk' = IF v.st = "ok"
                      THEN [p \in Paths |-> NewContent(changes, p)]
                      ELSE disk
    /\ UNCHANGED <<disk0, changes, prog>>

\* the caller takes what the last call returned or raised; after a commit
\* the Change Set is spent and nothing is called on it again
Return ==
    /\ out # NoOp
    /\ ~Spent
    /\ out' = NoOp
    /\ UNCHANGED <<disk, disk0, changes, prog>>

Next ==
    \/ \E c \in ChangeUniverse : Add(c)
    \/ \E i \in 1..Len(changes) : Str(i)
    \/ Validate
    \/ Preview
    \/ Commit
    \/ Return

Spec == Init /\ [][Next]_vars

\* ------------------------------------------------------------------------
\* Claims on Change and the Change Set (checked under Spec)
\* ------------------------------------------------------------------------

C2_PreviewIsPureInsertion ==
    (out.op = "str" /\ out.change = Change(SettingsPath, 0, 0, Foobar)) =>
        /\ out.r.new_source = Foobar \o out.r.source
        /\ out.r.diff.added = <<Foobar>>
        /\ out.r.diff.removed = <<>>
        /\ out.r.diff.hunk = <<1, 3, 1, 4>>

\* the offsets an inclusive range names
Offsets(c) == c.start..c.end

\* C3: validate fails with ConflictingChanges exactly when two Changes of
\* the set name the same file and their ranges share an offset.
C3_ValidateFailsIffOverlap ==
    out.op = "validate" =>
        (out.st = "ConflictingChanges"
            <=> \E i, j \in 1..Len(changes) :
                    /\ i # j
                    /\ changes[i].path = changes[j].path
                    /\ Offsets(changes[i]) \cap Offsets(changes[j]) # {})

\* C3 witness: validate has failed on two Changes of one file that share
\* one offset only, with distinct ranges
C3_Witness ==
    /\ out.op = "validate"
    /\ out.st = "ConflictingChanges"
    /\ Len(changes) = 2
    /\ changes[1].end = changes[2].start
    /\ changes[1].start < changes[1].end

\* the text with the range of every Change of the set S replaced by its
\* new_text, the ranges read off the original text from offset cursor on
RECURSIVE ReplaceRanges(_, _, _)
ReplaceRanges(text, S, cursor) ==
    IF S = {} THEN SliceFrom(text, cursor)
    ELSE LET c == CHOOSE x \in S : \A y \in S : x.start <= y.start
         IN  Slice(text, cursor, c.start) \o c.new_text
                \o ReplaceRanges(text, S \ {c}, c.end + 1)

ChangeSetOf(p) == {changes[i] : i \in {j \in 1..Len(changes) : changes[j].path = p}}

MaxTextLen == 4

\* every text of at most MaxTextLen characters over a letter and the newline
ResolverTexts ==
    UNION {[1..n -> {"a", NL}] : n \in 0..MaxTextLen}

ResolverInit ==
    /\ disk \in {[p \in {EmployeePath} |-> t] : t \in ResolverTexts}
    /\ disk0 = disk
    /\ changes = <<>>
    /\ prog = <<>>
    /\ out = NoOp

\* absolute_index_to_line_column(text, index), then back to an index
ToLineColumn(index) ==
    LET text == disk[EmployeePath]
        r == absolute_index_to_line_column(text, index)
    IN  /\ out = NoOp
        /\ out' = [op |-> "to_line_column", index |-> index, r |-> r,
                   back |-> IF r.st = "ok"
                            THEN line_column_to_absolute_index(text, r.v[1], r.v[2])
                            ELSE r]
        /\ UNCHANGED <<disk, disk0, changes, prog>>

\* line_column_to_absolute_index(text, line, column), then back to a pair
ToIndex(line, column) ==
    LET text == disk[EmployeePath]
        r == line_column_to_absolute_index(text, line, column)
    IN  /\ out = NoOp
        /\ out' = [op |-> "to_index", line |-> line, column |-> column, r |-> r,
                   back |-> IF r.st = "ok"
                            THEN absolute_index_to_line_column(text, r.v)
                            ELSE r]
        /\ UNCHANGED <<disk, disk0, changes, prog>>

ResolverNext ==
    \/ \E index \in 0..(MaxTextLen + 1) : ToLineColumn(index)
    \/ \E line \in 0..(MaxTextLen + 1), column \in 0..MaxTextLen : ToIndex(line, column)
    \/ Return

SpecResolver == ResolverInit /\ [][ResolverNext]_vars

\* the characters of line number line of text that come before its terminator
LineContent(text, line) ==
    LET l == splitlines(text)[line + 1]
    IN  IF l[Len(l)] = NL THEN SubSeq(l, 1, Len(l) - 1) ELSE l

\* (line, column) is a position of text: the line exists and the column is
\* not past the end of its content
RealPosition(text, line, column) ==
    /\ line < Len(splitlines(text))
    /\ column <= Len(LineContent(text, line))

\* C5: the Position Resolver round-trips: offset -> (line, col) -> offset is
\* the identity on every offset 0..len(t), and (line, col) -> offset ->
\* (line, col) is the identity on every real position of t.
C5_ResolverRoundTrip ==
    /\ (out.op = "to_line_column" /\ out.index <= Len(disk[EmployeePath]))
          => (out.r.st = "ok" /\ out.back = Ok(out.index))
    /\ (out.op = "to_index" /\ RealPosition(disk[EmployeePath], out.line, out.column))
          => (out.r.st = "ok" /\ out.back = Ok(<<out.line, out.column>>))

\* C5 witness: the end of the bare last line of a two-line text has gone to
\* its offset and back
C5_Witness ==
    /\ out.op = "to_index"
    /\ disk[EmployeePath] = <<"a", NL, "a", "a">>
    /\ out.line = 1
    /\ out.column = 2
    /\ out.r = Ok(4)
    /\ out.back = Ok(<<1, 2>>)

\* ------------------------------------------------------------------------
\* The module under edit and what the syntax-tree provider reports of it
\* ------------------------------------------------------------------------

\* what the provider reports of a value expression, lines counted from the
\* first line of its statement: its column, its last line (for a bracketed
\* value over several lines: the last line with content, not the line of the
\* closing bracket) and the last character of as_string()
NoValue == [col_offset |-> 0, tolineno |-> 1, last |-> " "]

Blank ==
    [kind |-> "filler", tolineno |-> 1, value |-> NoValue,
     lines |-> <<<<NL>>>>]
Comment ==
    [kind |-> "filler", tolineno |-> 1, value |-> NoValue,
     lines |-> <<<<"#", "1", "]", NL>>>>]
OneLineVariable ==
    [kind |-> "variable", tolineno |-> 1,
     value |-> [col_offset |-> 4, tolineno |-> 1, last |-> "1"],
     lines |-> <<<<"x", " ", "=", " ", "1", NL>>>>]
BracketVariable ==
    [kind |-> "variable", tolineno |-> 2,
     value |-> [col_offset |-> 4, tolineno |-> 2, last |-> "]"],
     lines |-> <<<<"y", " ", "=", " ", "[", NL>>,
                 <<" ", " ", " ", " ", "1", NL>>,
                 <<"]", NL>>>>]
EmptyBracketVariable ==
    [kind |-> "variable", tolineno |-> 1,
     value |-> [col_offset |-> 4, tolineno |-> 1, last |-> "]"],
     lines |-> <<<<"z", " ", "=", " ", "[", NL>>,
                 <<"]", NL>>>>]
ClassBlock ==
    [kind |-> "class", tolineno |-> 2, value |-> NoValue,
     lines |-> <<<<"c", "l", "a", "s", "s", " ", "A", ":", NL>>,
                 <<" ", " ", " ", " ", "p", "a", "s", "s", NL>>>>]
OneLineClass ==
    [kind |-> "class", tolineno |-> 1, value |-> NoValue,
     lines |-> <<<<"c", "l", "a", "s", "s", " ", "B", ":", " ", "p", "a", "s", "s", NL>>>>]
FunctionBlock ==
    [kind |-> "function", tolineno |-> 2, value |-> NoValue,
     lines |-> <<<<"d", "e", "f", " ", "f", "(", ")", ":", NL>>,
                 <<" ", " ", " ", " ", "r", "e", "t", "u", "r", "n", " ", "1", NL>>>>]
OneLineFunction ==
    [kind |-> "function", tolineno |-> 1, value |-> NoValue,
     lines |-> <<<<"d", "e", "f", " ", "g", "(", ")", ":", " ", "p", "a", "s", "s", NL>>>>]

\* a bracketed value over several lines with a nested bracket, a trailing
\* comment and a blank line before the closing bracket (the shape of
\* MULTILINE_SETTING in the tests)
CommentedBracketVariable ==
    [kind |-> "variable", tolineno |-> 2,
     value |-> [col_offset |-> 4, tolineno |-> 2, last |-> "]"],
     lines |-> <<<<"w", " ", "=", " ", "[", NL>>,
                 <<"[", "1", "]", ",", "#", "]", NL>>,
                 <<NL>>,
                 <<"]", NL>>>>]
\* a class and a function whose signature spans two lines (Lair and
\* send_memo of the test project)
MultilineClass ==
    [kind |-> "class", tolineno |-> 3, value |-> NoValue,
     lines |-> <<<<"c", "l", "a", "s", "s", " ", "L", "(", NL>>,
                 <<" ", " ", "P", ")", ":", NL>>,
                 <<" ", "p", "a", "s", "s", NL>>>>]
MultilineFunction ==
    [kind |-> "function", tolineno |-> 3, value |-> NoValue,
     lines |-> <<<<"d", "e", "f", " ", "m", "(", NL>>,
                 <<" ", " ", "b", ")", ":", NL>>,
                 <<" ", "p", "a", "s", "s", NL>>>>]

\* the top-level blocks a module of the model is made of
Catalogue ==
    <<Blank, Comment, OneLineVariable, BracketVariable, EmptyBracketVariable,
      ClassBlock, OneLineClass, FunctionBlock, OneLineFunction,
      CommentedBracketVariable, MultilineClass, MultilineFunction>>

\* bounds of the Entity Tree model
MaxBlocks == 3
MaxIndex == 2

BlockAt(k) == Catalogue[prog.blocks[k]]

IsStatement(k) == BlockAt(k).kind # "filler"

\* the number of lines of the first n blocks
RECURSIVE LinesOfFirst(_, _)
LinesOfFirst(blocks, n) ==
    IF n = 0 THEN 0
    ELSE Len(Catalogue[blocks[n]].lines) + LinesOfFirst(blocks, n - 1)

\* the lines of the first n blocks
RECURSIVE FileLines(_, _)
FileLines(blocks, n) ==
    IF n = 0 THEN <<>>
    ELSE FileLines(blocks, n - 1) \o Catalogue[blocks[n]].lines

\* the text of the module file: its blocks' lines, the last line bare when
\* the file does not end in a newline
Render(p) ==
    LET t == Join(FileLines(p.blocks, Len(p.blocks)))
    IN  IF p.eofnl THEN t ELSE SubSeq(t, 1, Len(t) - 1)

\* the nodes of the tree: the project root, the package directory, the
\* module and its top-level statements
ProjectNode == [kind |-> "project", k |-> 0]
PackageNode == [kind |-> "package", k |-> 0]
ModuleNode == [kind |-> "module", k |-> 0]
StatementNode(k) == [kind |-> BlockAt(k).kind, k |-> k]

\* ModuleNode.children
children == {StatementNode(k) : k \in {j \in 1..Len(prog.blocks) : IsStatement(j)}}

Nodes == {ProjectNode, PackageNode, ModuleNode} \cup children

\* whether the node has an _astroid_object
IsSourceNode(n) == n.kind \in {"module", "class", "function", "variable"}

\* Node.fs_path: a statement's is its module's
fs_path(n) ==
    CASE n.kind = "project" -> ProjectPath
      [] n.kind = "package" -> PackagePath
      [] OTHER -> EmployeePath

\* the last statement of the module, 0 if it has none
LastStatement ==
    LET S == {j \in 1..Len(prog.blocks) : IsStatement(j)}
    IN  IF S = {} THEN 0 ELSE CHOOSE j \in S : \A i \in S : i <= j

\* _astroid_object.fromlineno (1-based; 0 for a module)
fromlineno(n) ==
    IF n.kind = "module" THEN 0 ELSE LinesOfFirst(prog.blocks, n.k - 1) + 1

\* _astroid_object.tolineno (1-based): a module's is its last statement's
tolineno(n) ==
    IF n.kind = "module"
    THEN IF LastStatement = 0 THEN 0
         ELSE LinesOfFirst(prog.blocks, LastStatement - 1)
                + BlockAt(LastStatement).tolineno
    ELSE LinesOfFirst(prog.blocks, n.k - 1) + BlockAt(n.k).tolineno

\* _astroid_object.col_offset: every statement of the model is top-level
col_offset(n) == 0

\* _astroid_value.col_offset, _astroid_value.tolineno, as_string()[-1]
value_col_offset(n) == BlockAt(n.k).value.col_offset
value_tolineno(n) == LinesOfFirst(prog.blocks, n.k - 1) + BlockAt(n.k).value.tolineno
terminating_char(n) == BlockAt(n.k).value.last

\* _astroid_object.next_sibling(): the index of the next statement, 0 if none
next_sibling(n) ==
    LET S == {j \in (n.k + 1)..Len(prog.blocks) : IsStatement(j)}
    IN  IF S = {} THEN 0 ELSE CHOOSE j \in S : \A i \in S : j <= i

\* ------------------------------------------------------------------------
\* Node: spans
\* ------------------------------------------------------------------------

\* The mutant of get_file_source_code that gives None for a directory, as
\* get_source_file does.
get_file_source_code_or_none(n) ==
    IF fs_path(n) \in Directories THEN Ok(<<>>) ELSE Ok(disk[fs_path(n)])

\* Node.get_file_source_code: open() raises for a directory
get_file_source_code(n) ==
    IF fs_path(n) \in Directories THEN Raise("IOError")
    ELSE Ok(disk[fs_path(n)])

\* the text of the file of a node that has one
FileOf(n) == disk[fs_path(n)]

\* start_line: the provider's line numbers start with 1, a module's is 0
start_line(n) ==
    IF n.kind = "module" THEN fromlineno(n) ELSE fromlineno(n) - 1

start_column(n) == IF n.kind = "module" THEN 0 ELSE col_offset(n)

body_start_line(n) ==
    IF n.kind \in {"class", "function"} THEN start_line(n) + 1 ELSE start_line(n)

body_start_column(n) ==
    CASE n.kind \in {"class", "function"} -> 0
      [] n.kind = "variable" -> value_col_offset(n)
      [] OTHER -> start_column(n)

\* line[0:line.find('#')] when '#' is in line
StripComment(line) ==
    IF \E i \in 1..Len(line) : line[i] = "#"
    THEN SubSeq(line, 1, (CHOOSE i \in 1..Len(line) :
                            line[i] = "#" /\ \A j \in 1..(i - 1) : line[j] # "#") - 1)
    ELSE line

\* the place after the last char of line, 0 when char is not in line
AfterLast(line, char) ==
    LET S == {i \in 1..Len(line) : line[i] = char}
    IN  IF S = {} THEN 0 ELSE CHOOSE i \in S : \A j \in S : j <= i

\* lines_to_scan[-1] = lines_to_scan[-1][0:next_sibling_column]
TrimLast(scan, column) ==
    [scan EXCEPT ![Len(scan)] = SliceTo(scan[Len(scan)], column)]

\* the lines VariableNode.end_index scans: with a next sibling, from
\* astroid_end_line up to the line numbered next_sibling.fromlineno (the last
\* one cut at the sibling's column); with none, from the line numbered
\* _astroid_value.tolineno to the end of the file
lines_to_scan(n) ==
    IF next_sibling(n) # 0
    THEN TrimLast(Slice(splitlines(FileOf(n)), value_tolineno(n) - 1,
                        fromlineno(StatementNode(next_sibling(n))) + 1),
                  col_offset(StatementNode(next_sibling(n))))
    ELSE Slice(splitlines(FileOf(n)), value_tolineno(n), Len(splitlines(FileOf(n))))

\* the lines of scan that hold char outside a comment
Hits(scan, char) ==
    {k \in 1..Len(scan) : AfterLast(StripComment(scan[k]), char) # 0}

\* the first hit of the scan in reverse order
LastHit(hits) == CHOOSE x \in hits : \A y \in hits : y <= x

\* the return of the scan at line k of scan, whose index in reversed order
\* (line_index) is Len(scan) - k: line_index_in_file is astroid_end_line +
\* (len(lines_to_scan) - (line_index + 1)), char_index_in_line the place
\* after the last occurrence of the terminating character
FoundAt(n, scan, k) ==
    line_column_to_absolute_index(
        FileOf(n),
        (value_tolineno(n) - 1) + (Len(scan) - ((Len(scan) - k) + 1)),
        AfterLast(StripComment(scan[k]), terminating_char(n)))

\* the loop over reversed(lines_to_scan): None when it ends without a return
ScanReversed(n, scan, hits) ==
    IF hits = {} THEN None ELSE FoundAt(n, scan, LastHit(hits))

\* the scan of VariableNode.end_index over the lines scan
ScanFor(n, scan) == ScanReversed(n, scan, Hits(scan, terminating_char(n)))

\* VariableNode.end_index
VariableEndIndex(n) == ScanFor(n, lines_to_scan(n))

\* absolute_index_to_line_column(text, e): a None index is no number
LineColumnOf(text, e) ==
    IF e.st = "None" THEN Raise("TypeError")
    ELSE IF e.st # "ok" THEN e
    ELSE absolute_index_to_line_column(text, e.v)

\* absolute_index_to_line_column(self.get_file_source_code(), self.end_index)
EndLineColumn(n) == LineColumnOf(FileOf(n), VariableEndIndex(n))

\* lc[i - 1] of a (line, column) pair
Component(lc, i) == IF lc.st = "ok" THEN Ok(lc.v[i]) ELSE lc

\* end_line: the provider's tolineno as it is; a variable's is read back from
\* its end_index
end_line(n) ==
    IF n.kind = "variable" THEN Component(EndLineColumn(n), 1) ELSE Ok(tolineno(n))

end_column(n) ==
    IF n.kind = "variable" THEN Component(EndLineColumn(n), 2) ELSE Ok(0)

body_end_line(n) == end_line(n)
body_end_column(n) == end_column(n)

\* line_column_to_absolute_index(text, l, c) of a line and a column whose
\* reading may have raised
IndexOf(text, l, c) ==
    IF l.st # "ok" THEN l
    ELSE IF c.st # "ok" THEN c
    ELSE line_column_to_absolute_index(text, l.v, c.v)

start_index(n) ==
    line_column_to_absolute_index(FileOf(n), start_line(n), start_column(n))

body_start_index(n) ==
    line_column_to_absolute_index(FileOf(n), body_start_line(n), body_start_column(n))

end_index(n) ==
    IF n.kind = "variable" THEN VariableEndIndex(n)
    ELSE IndexOf(FileOf(n), end_line(n), end_column(n))

body_end_index(n) == IndexOf(FileOf(n), body_end_line(n), body_end_column(n))

\* source[start_index:end_index]; a None end slices to the end of the file
Region(source, start, end) ==
    IF start.st # "ok" THEN start
    ELSE IF end.st = "None" THEN Ok(SliceFrom(source, start.v))
    ELSE IF end.st # "ok" THEN end
    ELSE Ok(Slice(source, start.v, end.v))

\* _get_source_region(start_index, end_index)
get_source_region(n, start, end) == Region(FileOf(n), start, end)

get_source(n) == get_source_region(n, start_index(n), end_index(n))

get_body_source(n) == get_source_region(n, body_start_index(n), body_end_index(n))

\* ------------------------------------------------------------------------
\* ChangeGenerator
\* ------------------------------------------------------------------------

\* l + 1 of a line whose reading may have raised
LineAfter(l) == IF l.st = "ok" THEN Ok(l.v + 1) ELSE l

\* i - 1 of an index whose computation may have raised
BackUp(i) == IF i.st = "ok" THEN Ok(i.v - 1) ELSE i

\* to_index of overwrite and overwrite_body: the beginning of the line after
\* end_line, backed up by one
to_index(n, file_source) ==
    BackUp(IndexOf(file_source, LineAfter(end_line(n)), Ok(0)))

\* Change(self.node.fs_path, from_index, to_index, new_source)
ChangeOf(path, from_index, to, new_source) ==
    IF from_index.st # "ok" THEN from_index
    ELSE IF to.st # "ok" THEN to
    ELSE Ok(Change(path, from_index.v, to.v, new_source))

\* r, computed by a method that first reads the node's file and then the
\* node's _astroid_object
ReadFirst(n, r) ==
    IF get_file_source_code(n).st # "ok" THEN get_file_source_code(n)
    ELSE IF ~IsSourceNode(n) THEN Raise("AttributeError")
    ELSE r

\* ChangeGenerator.overwrite(new_source)
overwrite(n, new_source) ==
    ReadFirst(n, ChangeOf(fs_path(n),
                          line_column_to_absolute_index(
                              FileOf(n), start_line(n), start_column(n)),
                          to_index(n, FileOf(n)),
                          new_source))

\* ChangeGenerator.overwrite_body(new_source); overwrite_file_region gives
\* the Change of the region
overwrite_body(n, new_source) ==
    ReadFirst(n, ChangeOf(fs_path(n),
                          line_column_to_absolute_index(
                              FileOf(n), body_start_line(n), body_start_column(n)),
                          to_index(n, FileOf(n)),
                          new_source))

\* node_source[:index] + inject_source + node_source[index:]
Splice(node_source, index, inject_source) ==
    SliceTo(node_source, index) \o inject_source \o SliceFrom(node_source, index)

\* ChangeGenerator.inject_at_index(index, inject_source), given the node's
\* source
InjectInto(n, node_source, index, inject_source) ==
    IF node_source.st # "ok" THEN node_source
    ELSE overwrite(n, Splice(node_source.v, index, inject_source))

\* ChangeGenerator.inject_at_index(index, inject_source)
inject_at_index(n, index, inject_source) ==
    InjectInto(n, ReadFirst(n, get_source(n)), index, inject_source)

\* ChangeGenerator.inject_at_body_index(index, inject_source), given the
\* node's body source
InjectIntoBody(n, body_source, index, inject_source) ==
    IF body_source.st # "ok" THEN body_source
    ELSE overwrite_body(n, Splice(body_source.v, index, inject_source))

\* ChangeGenerator.inject_at_body_index(index, inject_source)
inject_at_body_index(n, index, inject_source) ==
    InjectIntoBody(n, ReadFirst(n, get_body_source(n)), index, inject_source)

\* ------------------------------------------------------------------------
\* The Entity Tree over bounded modules, and the Change Generator on it
\* ------------------------------------------------------------------------

InjectTexts == {<<"z">>}

Programs ==
    {[blocks |-> b, eofnl |-> e] :
        b \in UNION {[1..n -> 1..Len(Catalogue)] : n \in 1..MaxBlocks},
        e \in BOOLEAN}

NodeInit ==
    /\ prog \in Programs
    /\ disk = [p \in {EmployeePath} |-> Render(prog)]
    /\ disk0 = disk
    /\ changes = <<>>
    /\ out = NoOp

\* reading start_index, body_start_index, body_end_index and end_index
Spans(n) ==
    /\ out = NoOp
    /\ out' = [op |-> "spans", node |-> n,
               start |-> ReadFirst(n, start_index(n)),
               body_start |-> ReadFirst(n, body_start_index(n)),
               body_end |-> ReadFirst(n, body_end_index(n)),
               end |-> ReadFirst(n, end_index(n))]
    /\ UNCHANGED <<disk, disk0, changes, prog>>

\* node.change.overwrite(new_source)
Overwrite(n, new_source) ==
    /\ out = NoOp
    /\ out' = [op |-> "overwrite", node |-> n, new_source |-> new_source,
               r |-> overwrite(n, new_source)]
    /\ UNCHANGED <<disk, disk0, changes, prog>>

\* node.change.overwrite_body(new_source)
OverwriteBody(n, new_source) ==
    /\ out = NoOp
    /\ out' = [op |-> "overwrite_body", node |-> n, new_source |-> new_source,
               r |-> overwrite_body(n, new_source)]
    /\ UNCHANGED <<disk, disk0, changes, prog>>

\* node.change.inject_at_index(index, inject_source)
InjectAtIndex(n, index, inject_source) ==
    /\ out = NoOp
    /\ out' = [op |-> "inject_at_index", node |-> n, index |-> index,
               inject_source |-> inject_source,
               r |-> inject_at_index(n, index, inject_source)]
    /\ UNCHANGED <<disk, disk0, changes, prog>>

\* node.change.inject_at_body_index(index, inject_source)
InjectAtBodyIndex(n, index, inject_source) ==
    /\ out = NoOp
    /\ out' = [op |-> "inject_at_body_index", node |-> n, index |-> index,
               inject_source |-> inject_source,
               r |-> inject_at_body_index(n, index, inject_source)]
    /\ UNCHANGED <<disk, disk0, changes, prog>>

\* node.get_source() and node.get_body_source()
GetSource(n) ==
    /\ out = NoOp
    /\ out' = [op |-> "get_source", node |-> n,
               source |-> ReadFirst(n, get_source(n)),
               body_source |-> ReadFirst(n, get_body_source(n))]
    /\ UNCHANGED <<disk, disk0, changes, prog>>

NodeNext ==
    \/ \E n \in Nodes : Spans(n)
    \/ \E n \in Nodes : GetSource(n)
    \/ \E n \in Nodes, t \in NewTexts : Overwrite(n, t)
    \/ \E n \in Nodes, t \in NewTexts : OverwriteBody(n, t)
    \/ \E n \in Nodes, i \in 0..MaxIndex, t \in InjectTexts : InjectAtIndex(n, i, t)
    \/ \E n \in Nodes, i \in 0..MaxIndex, t \in InjectTexts : InjectAtBodyIndex(n, i, t)
    \/ Return

SpecNode == NodeInit /\ [][NodeNext]_vars

\* ------------------------------------------------------------------------
\* Claims on the Change Generator and the spans (checked under SpecNode)
\* ------------------------------------------------------------------------

\* the offset at which the line after the line of offset o begins
NextLineStart(text, o) ==
    LET lines == splitlines(text)
    IN  LenOfFirst(lines, ScanLines(lines, 0, 0, o)[1] + 1)

\* the offset of the last character of the whole-span that ends at offset e
LastCharOf(e) == Max(e - 1, 0)

\* C6: applying the Change of overwrite(X) to a copy of the file puts X in
\* the place of the node's whole-span source: everything before the node's
\* start is kept, X follows, and then the file goes on from a place between
\* the node's end and the beginning of the line after the node's last line,
\* so every line after the node's last line is kept.
C6_OverwriteKeepsSurroundingLines ==
    (out.op = "overwrite" /\ IsSourceNode(out.node) /\ out.r.st = "ok") =>
        LET n == out.node
            file == FileOf(n)
            s == start_index(n)
            e == end_index(n)
            applied == NewSource(file, out.r.v)
        IN  /\ s.st = "ok"
            /\ e.st = "ok"
            /\ \E k \in e.v..NextLineStart(file, LastCharOf(e.v)) :
                  applied = SliceTo(file, s.v) \o out.new_source \o SliceFrom(file, k)

\* C7: the Change of overwrite starts at the node's whole-span start and
\* ends at the last character of the line on which the node ends, never in
\* the following line.
C7_OverwriteEndsOnLastLine ==
    (out.op = "overwrite" /\ IsSourceNode(out.node) /\ out.r.st = "ok") =>
        LET n == out.node
            file == FileOf(n)
            s == start_index(n)
            e == end_index(n)
        IN  /\ s.st = "ok"
            /\ e.st = "ok"
            /\ out.r.v.start = s.v
            /\ out.r.v.end = NextLineStart(file, LastCharOf(e.v)) - 1

\* C8: the Change of inject_at_index(i, text) is that of overwrite on the
\* spliced source, and applying it gives the file with text inserted at
\* offset start_index + i and nothing else added or removed.
C8_InjectOnlyInserts ==
    (/\ out.op = "inject_at_index"
     /\ IsSourceNode(out.node)
     /\ out.r.st = "ok"
     /\ get_source(out.node).st = "ok"
     /\ out.index <= Len(get_source(out.node).v)) =>
        LET n == out.node
            file == FileOf(n)
            source == get_source(n).v
            at == start_index(n).v + out.index
        IN  /\ out.r = overwrite(n, Splice(source, out.index, out.inject_source))
            /\ NewSource(file, out.r.v)
                  = SliceTo(file, at) \o out.inject_source \o SliceFrom(file, at)

GeneratorOps == {"overwrite", "overwrite_body", "inject_at_index", "inject_at_body_index"}

C10_SpansOrdered ==
    (/\ out.op = "spans"
     /\ IsSourceNode(out.node)
     /\ out.start.st = "ok"
     /\ out.body_start.st = "ok"
     /\ out.body_end.st = "ok"
     /\ out.end.st = "ok") =>
        /\ out.start.v <= out.body_start.v
        /\ out.body_start.v <= out.body_end.v
        /\ out.body_end.v <= out.end.v

\* the text of a variable statement from its name through the terminating
\* character of its value: its lines without the newline that ends them
VariableText(k) ==
    LET t == Join(BlockAt(k).lines) IN SubSeq(t, 1, Len(t) - 1)

\* the text of the value of a variable statement
ValueText(k) == SliceFrom(VariableText(k), BlockAt(k).value.col_offset)

\* C11: for a variable whose bracketed value spans several lines, with a
\* trailing comment on a line of the value and a blank line before the
\* closing bracket, get_source() and get_body_source() end with exactly the
\* closing bracket of the value: they are the statement's text and the
\* value's text up to that bracket, and nothing that follows it.
C11_VariableEndsAtClosingBracket ==
    (/\ out.op = "get_source"
     /\ out.node.kind = "variable"
     /\ BlockAt(out.node.k) = CommentedBracketVariable) =>
        /\ out.source = Ok(VariableText(out.node.k))
        /\ out.body_source = Ok(ValueText(out.node.k))

\* C12: when no line of the scanned range holds the terminating character
\* outside a comment, VariableNode.end_index fails with BoundaryNotFound: it
\* returns no value, neither None nor an offset.
C12_NoBoundaryIsAnError ==
    (/\ out.op = "spans"
     /\ out.node.kind = "variable"
     /\ Hits(lines_to_scan(out.node), terminating_char(out.node)) = {}) =>
        out.end = Raise("BoundaryNotFound")

\* the number of lines of the declaration of the class or function statement
\* k: the first of its lines that holds the colon ending the signature
SignatureLines(k) ==
    CHOOSE i \in 1..Len(BlockAt(k).lines) :
        /\ \E j \in 1..Len(BlockAt(k).lines[i]) : BlockAt(k).lines[i][j] = ":"
        /\ \A h \in 1..(i - 1) :
              \A j \in 1..Len(BlockAt(k).lines[h]) : BlockAt(k).lines[h][j] # ":"

\* C13: for a class or function whose declaration spans several lines,
\* body_start_index is the offset of the start of the first line of the
\* body, the line after the last line of the signature.
C13_BodyStartsAfterSignature ==
    (/\ out.op = "spans"
     /\ out.node.kind \in {"class", "function"}
     /\ SignatureLines(out.node.k) > 1) =>
        out.body_start =
            Ok(start_index(out.node).v
               + Len(Join(SubSeq(BlockAt(out.node.k).lines, 1,
                                 SignatureLines(out.node.k)))))

\* ------------------------------------------------------------------------
\* ImportNode naming (code_monkey/node/import_node.py)
\*
\* prog.children is the siblings dict the parent hands to ImportNode: a
\* function from names to node ids; prog.imports counts the import nodes
\* built so far. out holds the locals of a running ImportNode.__init__.

MaxImports == 3
MaxSuffix == 8

Digit == <<"0", "1", "2", "3", "4", "5", "6", "7", "8", "9">>

RECURSIVE str(_)
\* str(index) of a natural number: its decimal digits
str(i) ==
    IF i < 10 THEN <<Digit[i + 1]>> ELSE str(i \div 10) \o <<Digit[(i % 10) + 1]>>

\* a naming that drops the index
unsuffixed(base_name, index) == base_name \o <<"_">>

\* base_name + '_' + str(index)
suffixed(base_name, index) == base_name \o <<"_">> \o str(index)

\* astroid_object.names[0][0] of the import statements of the module
BaseNames == {<<"a">>, <<"b">>, <<"a", "_", "0">>}

\* the names of the children built before the imports: classes, functions
\* and variables, whose names the module's text fixes
OtherNames == <<(<<"a">>), (<<"a", "_", "0">>), (<<"a", "_", "1">>)>>

\* the siblings dict holding the children numbered S of OtherNames
ChildrenOf(S) ==
    [name \in {OtherNames[i] : i \in S} |->
        CHOOSE i \in S : OtherNames[i] = name]

\* children[child_node.name] = child_node
SetItem(siblings, name, node) ==
    [key \in DOMAIN siblings \cup {name} |->
        IF key = name THEN node ELSE siblings[key]]

ImportInit ==
    /\ disk = <<>>
    /\ disk0 = <<>>
    /\ changes = <<>>
    /\ out = NoOp
    /\ \E S \in SUBSET (1..Len(OtherNames)) :
          prog = [children |-> ChildrenOf(S), imports |-> 0]

\* ImportNode.__init__ up to the loop: self.name = base_name; index = 0
NewImportNode(base_name) ==
    /\ out = NoOp
    /\ prog.imports < MaxImports
    /\ out' = [op |-> "import", pc |-> "while", base_name |-> base_name,
               name |-> base_name, index |-> 0]
    /\ UNCHANGED <<disk, disk0, changes, prog>>

\* one pass of the loop body: while self.name in siblings
WhileBody ==
    /\ out.op = "import"
    /\ out.pc = "while"
    /\ out.name \in DOMAIN prog.children
    /\ out.index < MaxSuffix
    /\ out' = [out EXCEPT !.name = suffixed(out.base_name, out.index),
                          !.index = out.index + 1]
    /\ UNCHANGED <<disk, disk0, changes, prog>>

\* the loop condition is false: __init__ returns
WhileExit ==
    /\ out.op = "import"
    /\ out.pc = "while"
    /\ out.name \notin DOMAIN prog.children
    /\ out' = [out EXCEPT !.pc = "done"]
    /\ UNCHANGED <<disk, disk0, changes, prog>>

\* the parent puts the new node into the dict under the name it was given
AddChild ==
    /\ out.op = "import"
    /\ out.pc = "done"
    /\ prog' = [children |-> SetItem(prog.children, out.name,
                                     Len(OtherNames) + prog.imports + 1),
                imports |-> prog.imports + 1]
    /\ out' = NoOp
    /\ UNCHANGED <<disk, disk0, changes>>

ImportNext ==
    \/ \E base_name \in BaseNames : NewImportNode(base_name)
    \/ WhileBody
    \/ WhileExit
    \/ AddChild

SpecImport == ImportInit /\ [][ImportNext]_vars

\* a running __init__ goes on: the loop takes its next step
SpecImportFair ==
    ImportInit /\ [][ImportNext]_vars /\ WF_vars(WhileBody) /\ WF_vars(WhileExit)

\* base_N written out, for N below 10
Numbered(base_name, N) == base_name \o <<"_", Digit[N + 1]>>

\* the name the loop is to give: base_name when it is free, otherwise
\* base_N for the smallest N whose base_N is free
FreeName(base_name, keys) ==
    IF base_name \notin keys THEN base_name
    ELSE Numbered(base_name,
                  CHOOSE N \in 0..Cardinality(keys) :
                      /\ Numbered(base_name, N) \notin keys
                      /\ \A M \in 0..(N - 1) : Numbered(base_name, M) \in keys)

\* the node ids built so far
NodeIds ==
    {prog.children[name] : name \in DOMAIN prog.children}

C14_NamedFree ==
    /\ (out.op = "import" /\ out.pc = "done") =>
          /\ out.name \notin DOMAIN prog.children
          /\ out.name = FreeName(out.base_name, DOMAIN prog.children)
    /\ (out.op = "import") => out.index <= Cardinality(DOMAIN prog.children)
    /\ Cardinality(NodeIds) = Cardinality(DOMAIN prog.children)
    /\ \A i \in 1..prog.imports : (Len(OtherNames) + i) \in NodeIds

\* C14: the naming loop of ImportNode ends, after at most as many passes as
\* there are siblings, with a name that is not in siblings: the base name
\* when it is free, otherwise base_N for the smallest N >= 0 whose base_N is
\* free; so every import node added keeps its own entry of the dict and the
\* mapping from names to nodes stays injective.
C14_ImportNamesInjective ==
    /\ []C14_NamedFree
    /\ (out.op = "import") ~> (out.op = "import" /\ out.pc = "done")

\* C14 witness: the loop ended after two collisions, with the name base_1,
\* in a dict that already holds an import node
C14_Witness ==
    /\ out.op = "import"
    /\ out.pc = "done"
    /\ out.index = 2
    /\ out.name = Numbered(out.base_name, 1)
    /\ prog.imports >= 1

\* C15: for a variable with a next sibling in the enclosing body, the scan
\* of VariableNode.end_index stops at the sibling's start, so end_index is
\* an offset and is never greater than the start offset of the sibling,
\* also when the sibling's own text holds the terminating character and
\* further lines follow the sibling.
C15_EndBeforeNextSibling ==
    (/\ out.op = "spans"
     /\ out.node.kind = "variable"
     /\ next_sibling(out.node) # 0) =>
        /\ out.end.st = "ok"
        /\ out.end.v <= start_index(StatementNode(next_sibling(out.node))).v

\* the lines from the provider-reported end line of the value of the
\* variable n to the end of the file
FromEndLine(n) ==
    Slice(splitlines(FileOf(n)), value_tolineno(n) - 1, Len(splitlines(FileOf(n))))

\* the offset just after the last terminating character of line k of the
\* lines scan, which begin at the provider-reported end line
JustAfter(n, scan, k) ==
    LenOfFirst(splitlines(FileOf(n)), (value_tolineno(n) - 1) + (k - 1))
        + AfterLast(StripComment(scan[k]), terminating_char(n))

\* C16: the scan of VariableNode.end_index starts at the provider-reported
\* end line of the value also when the variable has no next sibling: when
\* the terminating character is on that line or on a later one, end_index is
\* the offset just after its last occurrence, on the line where it was found
\* (for a one-line assignment on the last line, just after the value).
C16_ScanStartsAtEndLine ==
    (/\ out.op = "spans"
     /\ out.node.kind = "variable"
     /\ next_sibling(out.node) = 0
     /\ Hits(FromEndLine(out.node), terminating_char(out.node)) # {}) =>
        out.end =
            Ok(JustAfter(out.node, FromEndLine(out.node),
                         LastHit(Hits(FromEndLine(out.node),
                                      terminating_char(out.node)))))

====
